---------------------------- MODULE Spec2Model ----------------------------
(***************************************************************************)
(* Model of the bar pipeline of ib-trading:                                *)
(*   replay source (ib_client_mock.py) -> data_queue -> update_chart       *)
(*   (chart.py: SMA annotation, crossover signal, chart and overlays).     *)
(*                                                                         *)
(* Prices are integers; an SMA value is kept in hundredths (the code       *)
(* rounds to 2 decimals), so 1133 stands for 11.33.  A close or an SMA is  *)
(* a record [k, v]: k = "num" (v is the number), "NaN" (float nan) or      *)
(* "None" (Python None).                                                   *)
(***************************************************************************)
EXTENDS Integers, Sequences, FiniteSets, TLC

\* Bounds of the model.
MaxLen    == 4      \* rows of the fixture file
MaxClose  == 2      \* closes of valid rows are 1..MaxClose
MaxPeriod == 3      \* SMA periods are 1..MaxPeriod
MaxFailures == 1    \* chart calls that raise in one run
MaxTicks  == 2      \* rows of the tick file

VARIABLES
    SMA_SHORT_PERIOD,   \* config.SMA_SHORT_PERIOD
    SMA_LONG_PERIOD,    \* config.SMA_LONG_PERIOD
    fixture_exists,     \* os.path.exists of the data file of the request
    replay_pc,          \* position of the replay: idle / replaying / ended
    pos,                \* rows the replay has delivered
    req_result,         \* what reqHistoricalData returned to its caller
    current_req_id,     \* MockEClient.current_req_id
    data_queue,         \* shared.queue_manager.data_queue
    cons_pc,            \* update_chart: idle / draining
    bars,               \* update_chart's local list of annotated bars
    signal,             \* update_chart's local signal
    chart_df,           \* the series last handed to chart.set
    sma_short_line,     \* ChartHandler.sma_short_line
    sma_long_line,      \* ChartHandler.sma_long_line
    spinner,            \* the chart's loading spinner
    enqueued,           \* history: every item put on data_queue, in order
    dequeued,           \* history: every item taken by get_nowait, in order
    final_drain,        \* history: a drain ended after the replay had stopped
    pair,               \* two bar histories evaluated side by side
    fixture,            \* rows of the data file, when it is fixed in advance
    read_error,         \* the replay caught an exception while reading
    end_log,            \* history: the historicalDataEnd calls
    cycle_log,          \* history: what the running drain did, in order
    subs,               \* the historical requests open at the real client
    placed_orders,      \* the orders handed to client.placeOrder
    callers,            \* the get_next_req_id calls in progress and done
    orders,             \* IBClient.order_id and the broker's side of reqIds
    market,             \* the market data thread and its stop flag
    failures            \* history: the chart calls of update_chart that raised

vars == <<SMA_SHORT_PERIOD, SMA_LONG_PERIOD, fixture_exists, replay_pc, pos,
          req_result, current_req_id, data_queue, cons_pc, bars, signal,
          chart_df, sma_short_line, sma_long_line, spinner,
          enqueued, dequeued, final_drain, pair, fixture, read_error,
          end_log, cycle_log, subs, placed_orders, callers, orders, market, failures>>

\* What no action of the pipeline changes.
config_vars == <<SMA_SHORT_PERIOD, SMA_LONG_PERIOD, fixture_exists, pair,
                 fixture, subs, placed_orders, callers, orders, market, failures>>

---------------------------------------------------------------------------
\* Values

NoneV  == [k |-> "None", v |-> 0]
NaNV   == [k |-> "NaN", v |-> 0]
Num(x) == [k |-> "num", v |-> x]

\* pd.notna
notna(x) == x.k = "num"

Closes == {Num(c) : c \in 1..MaxClose} \cup {NaNV}

\* One valid close and the NaN close, for the runs whose outcome does not
\* depend on the prices.
TwoCloses == {Num(1), NaNV}

\* An overlay attribute of the ChartHandler: None until create_line has made
\* the Line; `creations` counts the create_line calls made for it.
NoLine == [created |-> FALSE, data |-> <<>>, creations |-> 0]

NoPair == <<>>

\* The data file is not fixed in advance: its rows are drawn as they are read.
NoFixture == <<>>

\* No request is open at the real client.
NoSubs == [origin |-> <<>>, ended |-> {}, realtime |-> 0]

\* The threads that may call get_next_req_id on the one client.
Callers == {1, 2}

\* No get_next_req_id call has started: callers.pc[c] is the position of
\* caller c inside the method, callers.tmp[c] the value it loaded for the
\* increment, callers.returned the ids returned so far, in order, and
\* callers.overlapped whether a call ever started while another was running.
NoCallers ==
    [pc         |-> [c \in Callers |-> "idle"],
     tmp        |-> [c \in Callers |-> 0],
     returned   |-> <<>>,
     overlapped |-> FALSE]

\* IBClient.order_id is None (0), no reqIds request is unanswered, the
\* broker's next valid order id is 1, no place_order is running or was
\* called, and the portfolio manager was never asked to update a position.
NoOrders ==
    [order_id   |-> 0,
     pending    |-> 0,
     next_valid |-> 1,
     pc         |-> "idle",
     action     |-> "None",
     calls      |-> 0,
     updates    |-> <<>>]

\* No market data thread was started and the stop flag is clear.
\* market.thread is the state of market_data_thread (none / running /
\* exited), market.tpc the thread's position in
\* simulate_market_data_from_csv, market.ticks the length of its local list
\* `ticks`, market.caller the position of the thread that called
\* stop_market_data or reqMktData.  market.stopped records that
\* stop_market_data returned after stopping a live thread and no thread was
\* started since, market.ticks_at_stop the ticks emitted up to that return.
\* market.last_req records how the last reqMktData call went (none yet /
\* missing file / thread started) and market.ticks_at_req the ticks emitted
\* when it returned.  Of the thread now in market.thread, market.targeted
\* records that a stop was requested while it ran, market.broke that it left
\* its loop on the stop flag, market.after_stop that it was started after a
\* stop_market_data that had stopped a live thread.
NoMarket ==
    [thread        |-> "none",
     tpc           |-> "loop",
     ticks         |-> 0,
     stop_event    |-> FALSE,
     caller        |-> "idle",
     stopped       |-> FALSE,
     ticks_at_stop |-> 0,
     last_req      |-> "none",
     ticks_at_req  |-> 0,
     targeted      |-> FALSE,
     broke         |-> FALSE,
     after_stop    |-> FALSE]

\* The pd.Series tickPrice puts on the queue: a time and a price, no date
\* and no close.  In a frame built from dicts first, its row has NaN in the
\* close column.
Tick(price) == [date |-> 0, close |-> NaNV, sma |-> <<>>, price |-> price]

IsTick(item) == "price" \in DOMAIN item

---------------------------------------------------------------------------
\* Pure helpers

RECURSIVE SumCloses(_)
SumCloses(s) == IF s = <<>> THEN 0 ELSE Head(s).v + SumCloses(Tail(s))

\* round(x, 2) of x = n / d, in hundredths; numpy rounds half to even.
Round2(n, d) ==
    LET q == (100 * n) \div d
        r == (100 * n) % d
    IN  IF 2 * r < d THEN q
        ELSE IF 2 * r > d THEN q + 1
        ELSE IF q % 2 = 0 THEN q ELSE q + 1

\* Mutant: the mean of all closes so far instead of the trailing window.
RollingMeanLast_expanding(closes, period) ==
    IF \E i \in 1..Len(closes) : ~notna(closes[i]) THEN NaNV
    ELSE Num(Round2(SumCloses(closes), Len(closes)))

\* temp_df['close'].rolling(window=period).mean().iloc[-1]: the mean of the
\* last `period` closes, NaN when one of them is NaN.
RollingMeanLast(closes, period) ==
    LET n == Len(closes)
        w == SubSeq(closes, n - period + 1, n)
    IN  IF \E i \in 1..period : ~notna(w[i]) THEN NaNV
        ELSE Num(Round2(SumCloses(w), period))

\* Mutant: the warm-up test is off by one (> for >=).
update_data_with_sma_late(period, bs, data) ==
    LET temp_closes == [i \in 1..(Len(bs) + 1) |->
                           IF i <= Len(bs) THEN bs[i].close ELSE data.close]
        val == IF Len(temp_closes) > period
               THEN RollingMeanLast(temp_closes, period)
               ELSE NoneV
    IN  [data EXCEPT !.sma = (period :> val) @@ @]

\* Mutant: the window of a period already annotated on the bar is used.
update_data_with_sma_shared_window(period, bs, data) ==
    LET temp_closes == [i \in 1..(Len(bs) + 1) |->
                           IF i <= Len(bs) THEN bs[i].close ELSE data.close]
        p   == IF DOMAIN data.sma = {} THEN period
               ELSE CHOOSE q \in DOMAIN data.sma : TRUE
        val == IF Len(temp_closes) >= p
               THEN RollingMeanLast(temp_closes, p)
               ELSE NoneV
    IN  [data EXCEPT !.sma = (period :> val) @@ @]

update_data_with_sma(period, bs, data) ==
    LET temp_closes == [i \in 1..(Len(bs) + 1) |->
                           IF i <= Len(bs) THEN bs[i].close ELSE data.close]
        val == IF Len(temp_closes) >= period
               THEN RollingMeanLast(temp_closes, period)
               ELSE NoneV
    IN  [data EXCEPT !.sma = (period :> val) @@ @]

---------------------------------------------------------------------------
\* shared.queue_manager.data_queue: a queue.Queue (FIFO)

queue_put(q, item) == Append(q, item)

queue_empty(q) == q = <<>>

queue_get_nowait(q) == <<Head(q), Tail(q)>>

---------------------------------------------------------------------------
\* ib_client_mock.py / ib_client.py

\* Mutant: the new bar goes to the front of the queue.
historicalData_front(q, date, close) ==
    <<[date |-> date, close |-> close, sma |-> <<>>]>> \o q

\* The dict historicalData builds from a BarData and puts on the queue.  It
\* has no SMA column yet.
historicalData(q, date, close) ==
    queue_put(q, [date |-> date, close |-> close, sma |-> <<>>])

---------------------------------------------------------------------------
\* signals_handler.py
\* The module reads its periods from shared.config; they are taken to be the
\* periods chart.py reads from config, so that the columns it looks for are
\* the columns update_data_with_sma writes.

\* df[col] of pd.DataFrame(bs) exists when some dict has the key.
HasColumn(bs, col) == \E i \in 1..Len(bs) : col \in DOMAIN bs[i].sma

\* The value of column col in row b (NaN where the dict lacks the key).
Cell(b, col) == IF col \in DOMAIN b.sma THEN b.sma[col] ELSE NaNV

\* Mutant: only the current bar is compared, without the crossing test.
sma_crossover_signal_level(bs) ==
    LET required_columns == {SMA_SHORT_PERIOD, SMA_LONG_PERIOD}
        missing_columns  == {col \in required_columns : ~HasColumn(bs, col)}
        empty_columns    ==
            {col \in required_columns :
                /\ HasColumn(bs, col)
                /\ \A i \in 1..Len(bs) : ~notna(Cell(bs[i], col))}
        sma_df == SelectSeq(bs, LAMBDA b :
                      /\ notna(Cell(b, SMA_SHORT_PERIOD))
                      /\ notna(Cell(b, SMA_LONG_PERIOD)))
        n == Len(sma_df)
    IN  IF missing_columns # {} \/ empty_columns # {} THEN "None"
        ELSE IF n < 2 THEN "None"
        ELSE LET p_sma_short == sma_df[n - 1].sma[SMA_SHORT_PERIOD].v
                 c_sma_short == sma_df[n].sma[SMA_SHORT_PERIOD].v
                 p_sma_long  == sma_df[n - 1].sma[SMA_LONG_PERIOD].v
                 c_sma_long  == sma_df[n].sma[SMA_LONG_PERIOD].v
             IN  IF c_sma_short > c_sma_long
                 THEN "buy"
                 ELSE IF c_sma_short < c_sma_long
                 THEN "sell"
                 ELSE "None"

\* Mutant: the previous bar is compared strictly, so a tie is no crossing.
sma_crossover_signal_strict(bs) ==
    LET required_columns == {SMA_SHORT_PERIOD, SMA_LONG_PERIOD}
        missing_columns  == {col \in required_columns : ~HasColumn(bs, col)}
        empty_columns    ==
            {col \in required_columns :
                /\ HasColumn(bs, col)
                /\ \A i \in 1..Len(bs) : ~notna(Cell(bs[i], col))}
        sma_df == SelectSeq(bs, LAMBDA b :
                      /\ notna(Cell(b, SMA_SHORT_PERIOD))
                      /\ notna(Cell(b, SMA_LONG_PERIOD)))
        n == Len(sma_df)
    IN  IF missing_columns # {} \/ empty_columns # {} THEN "None"
        ELSE IF n < 2 THEN "None"
        ELSE LET p_sma_short == sma_df[n - 1].sma[SMA_SHORT_PERIOD].v
                 c_sma_short == sma_df[n].sma[SMA_SHORT_PERIOD].v
                 p_sma_long  == sma_df[n - 1].sma[SMA_LONG_PERIOD].v
                 c_sma_long  == sma_df[n].sma[SMA_LONG_PERIOD].v
             IN  IF c_sma_short > c_sma_long /\ p_sma_short < p_sma_long
                 THEN "buy"
                 ELSE IF c_sma_short < c_sma_long /\ p_sma_short > p_sma_long
                 THEN "sell"
                 ELSE "None"

sma_crossover_signal(bs) ==
    LET required_columns == {SMA_SHORT_PERIOD, SMA_LONG_PERIOD}
        missing_columns  == {col \in required_columns : ~HasColumn(bs, col)}
        empty_columns    ==
            {col \in required_columns :
                /\ HasColumn(bs, col)
                /\ \A i \in 1..Len(bs) : ~notna(Cell(bs[i], col))}
        sma_df == SelectSeq(bs, LAMBDA b :
                      /\ notna(Cell(b, SMA_SHORT_PERIOD))
                      /\ notna(Cell(b, SMA_LONG_PERIOD)))
        n == Len(sma_df)
    IN  IF missing_columns # {} \/ empty_columns # {} THEN "None"
        ELSE IF n < 2 THEN "None"
        ELSE LET p_sma_short == sma_df[n - 1].sma[SMA_SHORT_PERIOD].v
                 c_sma_short == sma_df[n].sma[SMA_SHORT_PERIOD].v
                 p_sma_long  == sma_df[n - 1].sma[SMA_LONG_PERIOD].v
                 c_sma_long  == sma_df[n].sma[SMA_LONG_PERIOD].v
             IN  IF c_sma_short > c_sma_long /\ p_sma_short <= p_sma_long
                 THEN "buy"
                 ELSE IF c_sma_short < c_sma_long /\ p_sma_short >= p_sma_long
                 THEN "sell"
                 ELSE "None"

signals_functions == <<"sma_crossover_signal">>

RunSignal(name, bs) ==
    IF name = "sma_crossover_signal" THEN sma_crossover_signal(bs) ELSE "None"

\* Mutant: the majority vote that is commented out in the source, which
\* counts "Buy" and "Sell" while the rule returns "buy" and "sell".
buy_or_sell_majority(bs) ==
    LET signals   == [i \in 1..Len(signals_functions) |->
                         RunSignal(signals_functions[i], bs)]
        filtered  == SelectSeq(signals, LAMBDA x : x # "None")
        buy_count  == Len(SelectSeq(filtered, LAMBDA x : x = "Buy"))
        sell_count == Len(SelectSeq(filtered, LAMBDA x : x = "Sell"))
    IN  IF buy_count > sell_count THEN "Buy"
        ELSE IF sell_count > buy_count THEN "Sell"
        ELSE "None"

buy_or_sell_based_on_signals(bs) ==
    LET signals == [i \in 1..Len(signals_functions) |->
                        RunSignal(signals_functions[i], bs)]
    IN  signals[Len(signals_functions)]

---------------------------------------------------------------------------
\* chart.py

\* df[['date', sma_column]].dropna()
SmaPoints(df, period) ==
    LET rows == SelectSeq(df, LAMBDA b : notna(Cell(b, period)))
    IN  [i \in 1..Len(rows) |->
            [date |-> rows[i].date, value |-> rows[i].sma[period].v]]

\* Mutant: a new line is created in every cycle that has values.
show_sma_line_recreate(period, line_attr, df) ==
    IF ~HasColumn(df, period) THEN line_attr
    ELSE LET sma_df == SmaPoints(df, period)
         IN  IF sma_df # <<>>
             THEN [created |-> TRUE, data |-> sma_df,
                   creations |-> line_attr.creations + 1]
             ELSE line_attr

show_sma_line(period, line_attr, df) ==
    IF ~HasColumn(df, period) THEN line_attr
    ELSE LET sma_df == SmaPoints(df, period)
         IN  IF sma_df # <<>>
             THEN IF line_attr.created
                  THEN [line_attr EXCEPT !.data = sma_df]
                  ELSE [created |-> TRUE, data |-> sma_df,
                        creations |-> line_attr.creations + 1]
             ELSE line_attr

\* Mutant: the long SMA column is not added.
drain_iteration_short_only(bs, data) ==
    LET data1 == update_data_with_sma(SMA_SHORT_PERIOD, bs, data)
        bs2   == Append(bs, data1)
    IN  [bars |-> bs2, signal |-> buy_or_sell_based_on_signals(bs2)]

\* One iteration of update_chart's drain loop on the dequeued dict `data`:
\* both SMA columns are added, the dict is appended to the batch and the
\* signal is evaluated on the batch.
drain_iteration(bs, data) ==
    LET data1 == update_data_with_sma(SMA_SHORT_PERIOD, bs, data)
        data2 == update_data_with_sma(SMA_LONG_PERIOD, bs, data1)
        bs2   == Append(bs, data2)
    IN  [bars |-> bs2, signal |-> buy_or_sell_based_on_signals(bs2)]

\* update_data_with_sma raises on the batch bs and the item data.
\* pd.DataFrame(bars + [data]) takes its layout from the first element.
\* When that is a tick (a Series) the frame is built from Series: a dict
\* among the elements makes the construction raise, and a frame of ticks
\* only has no close column, so temp_df['close'] raises KeyError as soon as
\* the frame is as long as a period.  When the first element is a bar (a
\* dict) every later tick is converted to a dict and nothing raises.
annotation_raises(bs, data) ==
    LET temp_bars == Append(bs, data)
    IN  /\ IsTick(temp_bars[1])
        /\ \/ \E i \in 1..Len(temp_bars) : ~IsTick(temp_bars[i])
           \/ Len(temp_bars) >= SMA_SHORT_PERIOD
           \/ Len(temp_bars) >= SMA_LONG_PERIOD

\* Mutant: the signal is evaluated before the bar is annotated.
iteration_events_signal_first(date) ==
    <<[ev |-> "signal", date |-> date], [ev |-> "annotate", date |-> date]>>

\* What one iteration of the drain loop does with the bar of the given date,
\* in the order of its statements: the two update_data_with_sma calls and
\* the append, then buy_or_sell_based_on_signals.
iteration_events(date) ==
    <<[ev |-> "annotate", date |-> date], [ev |-> "signal", date |-> date]>>

---------------------------------------------------------------------------
\* State machine

ReplayStopped == replay_pc \in {"in_end", "returned"}

PipelineInit ==
    /\ replay_pc = "idle"
    /\ pos = 0
    /\ req_result = "pending"
    /\ current_req_id = 0
    /\ data_queue = <<>>
    /\ cons_pc = "idle"
    /\ bars = <<>>
    /\ signal = "None"
    /\ chart_df = <<>>
    /\ sma_short_line = NoLine
    /\ sma_long_line = NoLine
    /\ spinner = FALSE
    /\ enqueued = <<>>
    /\ dequeued = <<>>
    /\ final_drain = FALSE
    /\ read_error = FALSE
    /\ end_log = <<>>
    /\ cycle_log = <<>>
    /\ placed_orders = <<>>
    /\ callers = NoCallers
    /\ orders = NoOrders
    /\ market = NoMarket
    /\ failures = <<>>

Init ==
    /\ SMA_SHORT_PERIOD \in 1..MaxPeriod
    /\ SMA_LONG_PERIOD \in 1..MaxPeriod
    /\ SMA_SHORT_PERIOD < SMA_LONG_PERIOD
    /\ fixture_exists \in BOOLEAN
    /\ PipelineInit
    /\ pair = NoPair
    /\ fixture = NoFixture
    /\ subs = NoSubs


\* ChartHandler.request_historical_data up to MockEClient.reqHistoricalData's
\* check of the data file: spinner on, a fresh request id, and either the
\* early return (file missing) or the start of the replay.
request_historical_data ==
    /\ replay_pc = "idle"
    /\ spinner' = TRUE
    /\ current_req_id' = current_req_id + 1
    /\ IF ~fixture_exists
       THEN /\ replay_pc' = "returned"
            /\ req_result' = "None"
       ELSE /\ replay_pc' = "replaying"
            /\ UNCHANGED req_result
    /\ UNCHANGED <<config_vars, pos,
                   data_queue, cons_pc, bars, signal, chart_df,
                   sma_short_line, sma_long_line, enqueued, dequeued,
                   final_drain, read_error, end_log, cycle_log>>

\* One row of the CSV, whose close is `close`: the reader yields the row,
\* simulate_historical_data_from_csv builds the BarData and the wrapper's
\* historicalData puts the dict on the queue.  The row's time is its index.
simulate_historical_row(close) ==
    /\ replay_pc = "replaying"
    /\ pos' = pos + 1
    /\ data_queue' = historicalData(data_queue, pos + 1, close)
    /\ enqueued' = Append(enqueued, [date |-> pos + 1, close |-> close])
    /\ UNCHANGED <<config_vars, replay_pc,
                   req_result, current_req_id, cons_pc, bars, signal,
                   chart_df, sma_short_line, sma_long_line, spinner,
                   dequeued, final_drain, read_error, end_log, cycle_log>>

\* A row one of whose fields float() cannot parse: the ValueError leaves the
\* loop and the with block and is caught by the handler at the end of
\* simulate_historical_data_from_csv, which logs it; reqHistoricalData
\* returns.  Nothing is put on the queue for this row and no later row is
\* read.
simulate_historical_bad_row ==
    /\ replay_pc = "replaying"
    /\ read_error' = TRUE
    /\ replay_pc' = "returned"
    /\ req_result' = "None"
    /\ UNCHANGED <<config_vars, pos, current_req_id, data_queue, cons_pc,
                   bars, signal, chart_df, sma_short_line, sma_long_line,
                   spinner, enqueued, dequeued, final_drain, end_log,
                   cycle_log>>

\* The reader is exhausted: with at least one bar the wrapper's
\* historicalDataEnd runs, which calls update_chart; with none the replay
\* just returns.
simulate_historical_end ==
    /\ replay_pc = "replaying"
    /\ IF pos > 0
       THEN /\ cons_pc = "idle"
            /\ replay_pc' = "in_end"
            /\ cons_pc' = "draining"
            /\ bars' = <<>>
            /\ cycle_log' = <<>>
            /\ end_log' = Append(end_log, [reqId |-> current_req_id,
                                           delivered |-> Len(enqueued)])
            /\ UNCHANGED req_result
       ELSE /\ replay_pc' = "returned"
            /\ req_result' = "None"
            /\ UNCHANGED <<cons_pc, bars, cycle_log, end_log>>
    /\ UNCHANGED <<config_vars, pos,
                   current_req_id, data_queue, signal, chart_df,
                   sma_short_line, sma_long_line, spinner, enqueued,
                   dequeued, final_drain, read_error>>

\* update_chart called by any other caller while no drain is running.
update_chart_begin ==
    /\ cons_pc = "idle"
    /\ replay_pc \in {"replaying", "returned"}
    /\ cons_pc' = "draining"
    /\ bars' = <<>>
    /\ cycle_log' = <<>>
    /\ UNCHANGED <<config_vars, replay_pc, pos,
                   req_result, current_req_id, data_queue, signal, chart_df,
                   sma_short_line, sma_long_line, spinner, enqueued,
                   dequeued, final_drain, read_error, end_log>>

\* One iteration of update_chart's drain loop.
update_chart_step ==
    /\ cons_pc = "draining"
    /\ ~queue_empty(data_queue)
    /\ LET got == queue_get_nowait(data_queue)
           it  == drain_iteration(bars, got[1])
       IN  /\ ~annotation_raises(bars, got[1])
           /\ data_queue' = got[2]
           /\ bars' = it.bars
           /\ signal' = it.signal
           /\ dequeued' = Append(dequeued, [date |-> got[1].date,
                                            close |-> got[1].close])
           /\ cycle_log' = cycle_log \o iteration_events(got[1].date)
    /\ UNCHANGED <<config_vars, replay_pc, pos,
                   req_result, current_req_id, cons_pc, chart_df,
                   sma_short_line, sma_long_line, spinner, enqueued,
                   final_drain, read_error, end_log>>

\* Mutant: no early return on an empty batch.
update_chart_end_no_early_return ==
    /\ cons_pc = "draining"
    /\ queue_empty(data_queue)
    /\ cons_pc' = "idle"
    /\ chart_df' = bars
    /\ sma_short_line' =
           show_sma_line(SMA_SHORT_PERIOD, sma_short_line, bars)
    /\ sma_long_line' =
           show_sma_line(SMA_LONG_PERIOD, sma_long_line, bars)
    /\ spinner' = FALSE
    /\ final_drain' = (final_drain \/ ReplayStopped)
    /\ IF replay_pc = "in_end"
       THEN /\ replay_pc' = "returned"
            /\ req_result' = "None"
       ELSE UNCHANGED <<replay_pc, req_result>>
    /\ UNCHANGED <<config_vars, pos,
                   current_req_id, data_queue, bars, signal, enqueued,
                   dequeued, read_error, end_log, cycle_log>>

\* The loop finds the queue empty: the early return on an empty batch, or
\* chart.set and the two overlays; the finally clause turns the spinner off.
\* When historicalDataEnd made the call, the replay returns after it.
update_chart_end ==
    /\ cons_pc = "draining"
    /\ queue_empty(data_queue)
    /\ cons_pc' = "idle"
    /\ IF bars = <<>>
       THEN UNCHANGED <<chart_df, sma_short_line, sma_long_line>>
       ELSE /\ chart_df' = bars
            /\ sma_short_line' =
                   show_sma_line(SMA_SHORT_PERIOD, sma_short_line, bars)
            /\ sma_long_line' =
                   show_sma_line(SMA_LONG_PERIOD, sma_long_line, bars)
    /\ spinner' = FALSE
    /\ final_drain' = (final_drain \/ ReplayStopped)
    /\ IF replay_pc = "in_end"
       THEN /\ replay_pc' = "returned"
            /\ req_result' = "None"
       ELSE UNCHANGED <<replay_pc, req_result>>
    /\ UNCHANGED <<config_vars, pos,
                   current_req_id, data_queue, bars, signal, enqueued,
                   dequeued, read_error, end_log, cycle_log>>

Next ==
    \/ request_historical_data
    \/ \E close \in Closes : pos < MaxLen /\ simulate_historical_row(close)
    \/ simulate_historical_end
    \/ update_chart_begin
    \/ update_chart_step
    \/ update_chart_end

Spec == Init /\ [][Next]_vars

\* The periods play no part in whether a drain returns: liveness is verified
\* on the smallest pair.
InitLive ==
    /\ Init
    /\ SMA_LONG_PERIOD = SMA_SHORT_PERIOD + 1
    /\ \A p \in 1..MaxPeriod : SMA_SHORT_PERIOD <= p

\* A drain that has started keeps running: update_chart is a loop in a
\* running thread and makes no blocking call.  Nothing is assumed of the
\* producer.  This is WF_vars(update_chart_step \/ update_chart_end) with
\* its ENABLED written out: one of the two is enabled exactly when cons_pc
\* is "draining", and each of their steps changes vars.
SpecLive ==
    /\ InitLive
    /\ [][Next]_vars
    /\ \/ []<>(cons_pc # "draining")
       \/ []<><<update_chart_step \/ update_chart_end>>_vars

---------------------------------------------------------------------------
\* The scenario of the specification: closes 10, 11, 12, 13, 9, 8 replayed
\* with a short period of 2 and a long period of 3.

ScenarioCloses == <<10, 11, 12, 13, 9, 8>>

InitScenario ==
    /\ SMA_SHORT_PERIOD = 2
    /\ SMA_LONG_PERIOD = 3
    /\ fixture_exists = TRUE
    /\ PipelineInit
    /\ pair = NoPair
    /\ fixture = NoFixture
    /\ subs = NoSubs

NextScenario ==
    \/ request_historical_data
    \/ /\ pos < Len(ScenarioCloses)
       /\ simulate_historical_row(Num(ScenarioCloses[pos + 1]))
    \/ /\ pos = Len(ScenarioCloses)
       /\ simulate_historical_end
    \/ update_chart_begin
    \/ update_chart_step
    \/ update_chart_end

SpecScenario == InitScenario /\ [][NextScenario]_vars

---------------------------------------------------------------------------
\* The replay of a data file whose rows are fixed in advance.  A row is the
\* close it parses to, or BadRow when one of its fields does not parse as a
\* float.  The mock client runs the whole replay, the drain of
\* historicalDataEnd included, inside the caller of reqHistoricalData.

BadRow == [k |-> "bad", v |-> 0]

Rows == Closes \cup {BadRow}

Fixtures == UNION {[1..n -> Rows] : n \in 0..MaxLen}

InitReplay ==
    /\ SMA_SHORT_PERIOD \in 1..MaxPeriod
    /\ SMA_LONG_PERIOD \in 1..MaxPeriod
    /\ SMA_SHORT_PERIOD < SMA_LONG_PERIOD
    /\ fixture_exists \in BOOLEAN
    /\ fixture \in (IF fixture_exists THEN Fixtures ELSE {NoFixture})
    /\ PipelineInit
    /\ pair = NoPair
    /\ subs = NoSubs

NextReplay ==
    \/ request_historical_data
    \/ /\ pos < Len(fixture)
       /\ fixture[pos + 1] # BadRow
       /\ simulate_historical_row(fixture[pos + 1])
    \/ /\ pos < Len(fixture)
       /\ fixture[pos + 1] = BadRow
       /\ simulate_historical_bad_row
    \/ /\ pos = Len(fixture)
       /\ simulate_historical_end
    \/ update_chart_step
    \/ update_chart_end

SpecReplay == InitReplay /\ [][NextReplay]_vars

---------------------------------------------------------------------------
\* Two historical requests open at the real client (ib_client.py).  The UI
\* thread sends the requests; the API thread runs the callbacks, one at a
\* time: historicalData for a bar of either request, and historicalDataEnd,
\* which runs update_chart to its end before the next callback.
\* subs.origin[k] is the request of the k-th item put on the queue,
\* subs.ended the requests whose historicalDataEnd has come, subs.realtime
\* the number of realtimeBar callbacks received.

Subscriptions == {1, 2}

OpenSubs == {r \in Subscriptions : r <= current_req_id} \ subs.ended

\* The bars request r has been delivered so far.
Delivered(r) == Len(SelectSeq(subs.origin, LAMBDA o : o = r))

InitTwo ==
    /\ SMA_SHORT_PERIOD \in 1..MaxPeriod
    /\ SMA_LONG_PERIOD \in 1..MaxPeriod
    /\ SMA_SHORT_PERIOD < SMA_LONG_PERIOD
    /\ fixture_exists = TRUE
    /\ fixture = NoFixture
    /\ PipelineInit
    /\ pair = NoPair
    /\ subs = NoSubs

\* ChartHandler.request_historical_data with the real client: spinner on,
\* the next request id, and the request is sent.
ib_request_historical_data ==
    /\ current_req_id + 1 \in Subscriptions
    /\ spinner' = TRUE
    /\ current_req_id' = current_req_id + 1
    /\ UNCHANGED <<config_vars, replay_pc, pos, req_result, data_queue,
                   cons_pc, bars, signal, chart_df, sma_short_line,
                   sma_long_line, enqueued, dequeued, final_drain,
                   read_error, end_log, cycle_log>>

\* IBClient.historicalData for a bar of request reqId: the dict, which does
\* not hold the request id, is put on the shared queue.
ib_historicalData(reqId, close) ==
    /\ reqId \in OpenSubs
    /\ cons_pc = "idle"
    /\ data_queue' = historicalData(data_queue, Delivered(reqId) + 1, close)
    /\ enqueued' = Append(enqueued, [date |-> Delivered(reqId) + 1,
                                     close |-> close])
    /\ subs' = [subs EXCEPT !.origin = Append(@, reqId)]
    /\ UNCHANGED <<SMA_SHORT_PERIOD, SMA_LONG_PERIOD, fixture_exists, pair,
                   fixture, placed_orders, callers, orders, market, failures,
                   replay_pc, pos, req_result,
                   current_req_id, cons_pc, bars, signal, chart_df,
                   sma_short_line, sma_long_line, spinner, dequeued,
                   final_drain, read_error, end_log, cycle_log>>

\* IBClient.historicalDataEnd for request reqId: spinner off, then
\* update_chart starts.
ib_historicalDataEnd(reqId) ==
    /\ reqId \in OpenSubs
    /\ cons_pc = "idle"
    /\ spinner' = FALSE
    /\ cons_pc' = "draining"
    /\ bars' = <<>>
    /\ cycle_log' = <<>>
    /\ end_log' = Append(end_log, [reqId |-> reqId,
                                   delivered |-> Len(enqueued)])
    /\ subs' = [subs EXCEPT !.ended = @ \cup {reqId}]
    /\ UNCHANGED <<SMA_SHORT_PERIOD, SMA_LONG_PERIOD, fixture_exists, pair,
                   fixture, placed_orders, callers, orders, market, failures,
                   replay_pc, pos, req_result,
                   current_req_id, data_queue, signal, chart_df,
                   sma_short_line, sma_long_line, enqueued, dequeued,
                   final_drain, read_error>>

\* IBClient.realtimeBar: its first statement returns the result of
\* EWrapper.realtimeBar, which only logs; the statements after it, which
\* build the dict and put it on the queue, are never reached.
\* Callbacks run one at a time on the API thread, so none runs while a
\* drain started by historicalDataEnd is in progress.
ib_realtimeBar(close) ==
    /\ cons_pc = "idle"
    /\ subs' = [subs EXCEPT !.realtime = @ + 1]
    /\ UNCHANGED <<SMA_SHORT_PERIOD, SMA_LONG_PERIOD, fixture_exists, pair,
                   fixture, placed_orders, callers, orders, market, failures,
                   replay_pc, pos, req_result,
                   current_req_id, data_queue, cons_pc, bars, signal,
                   chart_df, sma_short_line, sma_long_line, spinner,
                   enqueued, dequeued, final_drain, read_error, end_log,
                   cycle_log>>

\* The callbacks the API thread has run for bars.
BarCallbacks == Len(enqueued) + subs.realtime

NextTwo ==
    \/ ib_request_historical_data
    \/ \E reqId \in Subscriptions, close \in Closes :
          BarCallbacks < MaxLen /\ ib_historicalData(reqId, close)
    \/ \E close \in Closes :
          BarCallbacks < MaxLen /\ ib_realtimeBar(close)
    \/ \E reqId \in Subscriptions : ib_historicalDataEnd(reqId)
    \/ update_chart_step
    \/ update_chart_end

SpecTwo == InitTwo /\ [][NextTwo]_vars

---------------------------------------------------------------------------
\* Two bar histories evaluated side by side by the loop body of update_chart.
\* The histories have the same length and differ in at most one bar.

EmptyHistory == [bars |-> <<>>, signal |-> "None"]

\* The loop body applied to history h and a new bar with the given close.
Evaluate(h, close) ==
    drain_iteration(h.bars, [date |-> Len(h.bars) + 1, close |-> close,
                             sma |-> <<>>])

InitPair ==
    /\ SMA_SHORT_PERIOD \in 1..MaxPeriod
    /\ SMA_LONG_PERIOD \in 1..MaxPeriod
    /\ SMA_SHORT_PERIOD < SMA_LONG_PERIOD
    /\ fixture_exists = TRUE
    /\ PipelineInit
    /\ pair = [a |-> EmptyHistory, b |-> EmptyHistory]
    /\ fixture = NoFixture
    /\ subs = NoSubs

pair_feed_same(close) ==
    /\ Len(pair.a.bars) < MaxLen
    /\ pair' = [a |-> Evaluate(pair.a, close), b |-> Evaluate(pair.b, close)]
    /\ UNCHANGED <<SMA_SHORT_PERIOD, SMA_LONG_PERIOD, fixture_exists,
                   replay_pc, pos, req_result, current_req_id, data_queue,
                   cons_pc, bars, signal, chart_df, sma_short_line,
                   sma_long_line, spinner, enqueued, dequeued, final_drain,
                   fixture, read_error, end_log, cycle_log, subs,
                   placed_orders, callers, orders, market, failures>>

pair_feed_differ(close_a, close_b) ==
    /\ Len(pair.a.bars) < MaxLen
    /\ close_a # close_b
    /\ pair.a = pair.b
    /\ pair' = [a |-> Evaluate(pair.a, close_a),
                b |-> Evaluate(pair.b, close_b)]
    /\ UNCHANGED <<SMA_SHORT_PERIOD, SMA_LONG_PERIOD, fixture_exists,
                   replay_pc, pos, req_result, current_req_id, data_queue,
                   cons_pc, bars, signal, chart_df, sma_short_line,
                   sma_long_line, spinner, enqueued, dequeued, final_drain,
                   fixture, read_error, end_log, cycle_log, subs,
                   placed_orders, callers, orders, market, failures>>

NextPair ==
    \/ \E close \in Closes : pair_feed_same(close)
    \/ \E close_a, close_b \in Closes : pair_feed_differ(close_a, close_b)

SpecPair == InitPair /\ [][NextPair]_vars

---------------------------------------------------------------------------
\* Properties of the pipeline (specification Spec)

IsPrefix(s, t) == Len(s) <= Len(t) /\ SubSeq(t, 1, Len(s)) = s

\* Row i of the batch has a value for the SMA of period P.
Avail(bs, i, P) == P \in DOMAIN bs[i].sma /\ bs[i].sma[P].k = "num"

BothAvail(bs, i) ==
    Avail(bs, i, SMA_SHORT_PERIOD) /\ Avail(bs, i, SMA_LONG_PERIOD)

Short(bs, i) == bs[i].sma[SMA_SHORT_PERIOD].v

Long(bs, i) == bs[i].sma[SMA_LONG_PERIOD].v

RECURSIVE CloseSum(_, _, _)
CloseSum(bs, lo, hi) ==
    IF lo > hi THEN 0 ELSE bs[lo].close.v + CloseSum(bs, lo + 1, hi)

Abs(x) == IF x < 0 THEN -x ELSE x

\* v (in hundredths) is sum / P rounded to 2 decimals.
IsRoundedMean(v, sum, P) == 2 * Abs(P * v - 100 * sum) <= P

\* The raw dict of an annotated bar, as it was on the queue.
Raw(b) == [date |-> b.date, close |-> b.close, sma |-> <<>>]

\* The last bar of bs as the drain loop annotates it when the bars of bs
\* with a non-finite close are left out.
RECURSIVE AnnotateAll(_, _)
AnnotateAll(done, todo) ==
    IF todo = <<>> THEN done
    ELSE AnnotateAll(drain_iteration(done, Raw(Head(todo))).bars, Tail(todo))

WithoutInvalid(bs) ==
    LET valid == SelectSeq(bs, LAMBDA b : notna(b.close))
        out   == AnnotateAll(<<>>, valid)
    IN  out[Len(out)]

\* C1: the items taken by the drains, in order, are always a prefix of the
\* items put on the queue, and are all of them once the replay has stopped
\* and a drain has ended after that: nothing lost, duplicated or reordered.
C1_FifoHandOff ==
    /\ IsPrefix(dequeued, enqueued)
    /\ (ReplayStopped /\ final_drain) => dequeued = enqueued

\* C1 witness: bars were enqueued while drains ran (the last batch is shorter
\* than what was dequeued) and a final drain has taken everything.
C1_Witness ==
    /\ ReplayStopped /\ final_drain
    /\ Len(dequeued) >= 3
    /\ Len(chart_df) < Len(dequeued)
    /\ Len(chart_df) >= 1

\* C2: in the list one update_chart call annotates, SMA_P is None on each of
\* the first P-1 bars, and on bar P and every later bar whose trailing P
\* closes are finite it is the mean of those P closes rounded to 2 decimals.
C2_SmaWarmUp ==
    \A P \in {SMA_SHORT_PERIOD, SMA_LONG_PERIOD} :
        \A i \in 1..Len(bars) :
            /\ i < P => bars[i].sma[P] = NoneV
            /\ (i >= P /\ \A j \in (i - P + 1)..i : notna(bars[j].close))
                  => /\ Avail(bars, i, P)
                     /\ IsRoundedMean(bars[i].sma[P].v,
                                      CloseSum(bars, i - P + 1, i), P)

\* C2 witness: a batch longer than the long period whose bar P is the first
\* with a long SMA and whose last bar has one too.
C2_Witness ==
    /\ Len(bars) > SMA_LONG_PERIOD
    /\ SMA_LONG_PERIOD >= 2
    /\ bars[SMA_LONG_PERIOD - 1].sma[SMA_LONG_PERIOD] = NoneV
    /\ Avail(bars, SMA_LONG_PERIOD, SMA_LONG_PERIOD)
    /\ Avail(bars, Len(bars), SMA_LONG_PERIOD)
    /\ bars[Len(bars)].close # bars[1].close

\* C3: when both SMAs are available on the current bar t and on bar t-1,
\* the signal for t is buy iff short[t] > long[t] and short[t-1] <= long[t-1],
\* sell iff short[t] < long[t] and short[t-1] >= long[t-1], None otherwise.
C3_CrossoverRule ==
    LET t == Len(bars) IN
    (t >= 2 /\ BothAvail(bars, t) /\ BothAvail(bars, t - 1)) =>
        /\ signal = "buy" <=> /\ Short(bars, t) > Long(bars, t)
                              /\ Short(bars, t - 1) <= Long(bars, t - 1)
        /\ signal = "sell" <=> /\ Short(bars, t) < Long(bars, t)
                               /\ Short(bars, t - 1) >= Long(bars, t - 1)
        /\ signal \in {"buy", "sell", "None"}

\* C3 witness: a sell for a bar whose predecessor had short above long.
C3_Witness ==
    LET t == Len(bars) IN
    /\ t >= 2 /\ BothAvail(bars, t) /\ BothAvail(bars, t - 1)
    /\ signal = "sell"
    /\ Short(bars, t - 1) > Long(bars, t - 1)

\* C4 (the claim as stated): when an SMA is unavailable on the current bar or
\* on the bar before it, the signal for the current bar is None.
C4_UnavailableGivesNone ==
    LET t == Len(bars) IN
    (t >= 1 /\ (~BothAvail(bars, t) \/ (t >= 2 /\ ~BothAvail(bars, t - 1))))
        => signal = "None"

\* C5: a tie at t-1 followed by a strict difference at t is a crossover (buy
\* when short[t] > long[t], sell when short[t] < long[t]); a tie at t gives
\* no signal whatever the order at t-1.
C5_TieBreak ==
    LET t == Len(bars) IN
    (t >= 2 /\ BothAvail(bars, t) /\ BothAvail(bars, t - 1)) =>
        /\ (Short(bars, t - 1) = Long(bars, t - 1)
               /\ Short(bars, t) > Long(bars, t)) => signal = "buy"
        /\ (Short(bars, t - 1) = Long(bars, t - 1)
               /\ Short(bars, t) < Long(bars, t)) => signal = "sell"
        /\ Short(bars, t) = Long(bars, t) => signal = "None"

\* C5 witness: a buy that starts from a tie.
C5_Witness ==
    LET t == Len(bars) IN
    /\ t >= 2 /\ BothAvail(bars, t) /\ BothAvail(bars, t - 1)
    /\ Short(bars, t - 1) = Long(bars, t - 1)
    /\ Short(bars, t) > Long(bars, t)
    /\ signal = "buy"

\* Two indicator values agree: the same number, or both unavailable.
SameValue(x, y) ==
    IF notna(x) /\ notna(y) THEN x.v = y.v ELSE ~notna(x) /\ ~notna(y)

\* C9 (the claim as stated): every valid bar of a batch carries the SMA values
\* it would carry if the invalid bars (close not finite) before it had never
\* been enqueued.
C9_InvalidBarDoesNotPoison ==
    \A i \in 1..Len(bars) :
        notna(bars[i].close) =>
            \A P \in {SMA_SHORT_PERIOD, SMA_LONG_PERIOD} :
                SameValue(bars[i].sma[P],
                          WithoutInvalid(SubSeq(bars, 1, i)).sma[P])

\* C10 (the claim as stated): a request whose data file does not exist
\* returns SourceUnavailable to its caller and puts no bar on the queue.
C10_MissingFixtureReported ==
    (~fixture_exists /\ replay_pc = "returned") =>
        /\ req_result = "SourceUnavailable"
        /\ enqueued = <<>>

---------------------------------------------------------------------------
\* Properties of the scenario (specification SpecScenario)

ScenarioShort ==
    <<NoneV, Num(1050), Num(1150), Num(1250), Num(1100), Num(850)>>

ScenarioLong ==
    <<NoneV, NoneV, Num(1100), Num(1200), Num(1133), Num(1000)>>

\* The batch being annotated starts with the first bar of the stream.
FromFirstBar == bars # <<>> /\ bars[1].date = 1

\* C7: for closes 10, 11, 12, 13, 9, 8 with periods 2 and 3, the short SMA is
\* unavailable on bar 1 and 10.5, 11.5, 12.5, 11, 8.5 on bars 2..6, the long
\* SMA is unavailable on bars 1..2 and 11, 12, 11.33, 10 on bars 3..6.
C7_ScenarioIndicators ==
    FromFirstBar =>
        \A i \in 1..Len(bars) :
            /\ bars[i].sma[SMA_SHORT_PERIOD] = ScenarioShort[i]
            /\ bars[i].sma[SMA_LONG_PERIOD] = ScenarioLong[i]

\* C7 witness: all six bars annotated in one batch.
C7_Witness == FromFirstBar /\ Len(bars) = 6

\* C8 (the claim as stated): in the scenario the signal emitted when bar 6 is
\* the current bar is sell.
C8_SellAtBarSix == (FromFirstBar /\ Len(bars) = 6) => signal = "sell"

\* C8 (amended): in the scenario the signal is sell when bar 5 is the current
\* bar (the crossing between bars 4 and 5) and None when bar 6 is.
C8_SellAtBarFive ==
    /\ (FromFirstBar /\ Len(bars) = 5) => signal = "sell"
    /\ (FromFirstBar /\ Len(bars) = 6) => signal = "None"

\* C8 witness: bar 6 has been evaluated after bars 1..5 in the same batch.
C8_Witness ==
    /\ FromFirstBar /\ Len(bars) = 6
    /\ Short(bars, 6) < Long(bars, 6)
    /\ Short(bars, 5) < Long(bars, 5)
    /\ Short(bars, 4) > Long(bars, 4)

---------------------------------------------------------------------------
\* Properties of two histories (specification SpecPair)

\* C6 (the claim as stated): two bar histories whose last two annotated bars
\* are identical yield the same signal.
C6_FunctionOfLastTwoBars ==
    LET a == pair.a.bars
        b == pair.b.bars
        n == Len(a)
    IN  (n >= 2 /\ Len(b) = n /\ a[n] = b[n] /\ a[n - 1] = b[n - 1])
            => pair.a.signal = pair.b.signal

---------------------------------------------------------------------------
\* Properties of the drain cycle (specifications Spec and SpecLive)

DrainReturns == cons_pc = "draining" /\ cons_pc' = "idle"

\* C16: a running drain always returns, whether or not another bar is ever
\* put on the queue (only the drain's own steps are fair); it returns only
\* when the queue is empty, so all that was buffered when it started has
\* been removed; and when its batch is empty it leaves the chart series and
\* both overlays as they were.
C16_NonBlockingDrain ==
    /\ [][DrainReturns =>
             /\ data_queue' = <<>>
             /\ bars = <<>> =>
                    UNCHANGED <<chart_df, sma_short_line, sma_long_line>>]_vars
    /\ (cons_pc = "draining" ~> cons_pc = "idle")

\* C16 witness: a drain has returned an empty batch after an earlier drain
\* had set the chart series and created an overlay.
C16_Witness ==
    /\ cons_pc = "idle"
    /\ bars = <<>>
    /\ chart_df # <<>>
    /\ sma_short_line.created

\* C17: the batch of a drain holds one annotated bar per item the drain has
\* dequeued, in dequeue order, each with an entry for the short and for the
\* long SMA that is a number or an unavailable marker; and the series handed
\* to the chart by a drain with a non-empty batch is that batch.
C17_OneToOneAnnotation ==
    /\ Len(bars) <= Len(dequeued)
    /\ \A i \in 1..Len(bars) :
          /\ [date |-> bars[i].date, close |-> bars[i].close]
                 = dequeued[Len(dequeued) - Len(bars) + i]
          /\ DOMAIN bars[i].sma = {SMA_SHORT_PERIOD, SMA_LONG_PERIOD}
          /\ \A P \in DOMAIN bars[i].sma :
                 bars[i].sma[P].k \in {"num", "NaN", "None"}
    /\ (cons_pc = "idle" /\ bars # <<>>) => chart_df = bars

\* C17 witness: a drain has handed the chart a series of three bars or more
\* in which an SMA is unavailable on one bar and a number on another.
C17_Witness ==
    /\ cons_pc = "idle"
    /\ Len(bars) >= 3
    /\ chart_df = bars
    /\ \E i, j \in 1..Len(chart_df) :
          /\ ~Avail(chart_df, i, SMA_LONG_PERIOD)
          /\ Avail(chart_df, j, SMA_LONG_PERIOD)

\* C18 (the claim as stated): in the log of a drain no bar is annotated after
\* a signal evaluation.
C18_AnnotateAllThenSignal ==
    \A i, j \in 1..Len(cycle_log) :
        (i < j /\ cycle_log[i].ev = "signal") => cycle_log[j].ev # "annotate"

\* C18 (amended): a drain handles its bars one at a time in dequeue order:
\* bar k is annotated, then the signal is evaluated on bars 1..k, and only
\* then is bar k+1 annotated.
C18_AnnotateThenSignalPerBar ==
    /\ Len(cycle_log) = 2 * Len(bars)
    /\ \A k \in 1..Len(bars) :
          /\ cycle_log[2 * k - 1] = [ev |-> "annotate", date |-> bars[k].date]
          /\ cycle_log[2 * k] = [ev |-> "signal", date |-> bars[k].date]

\* C18 witness: a drain has handled two bars or more.
C18_Witness ==
    /\ Len(bars) >= 2
    /\ Len(cycle_log) >= 4
    /\ cycle_log[2].ev = "signal"
    /\ cycle_log[3].ev = "annotate"

\* C19 (the claim as stated): once a drain with a non-empty batch has
\* returned, its final signal has been handed to the order path.
OrderActionOf(sig) ==
    IF sig = "buy" THEN "BUY" ELSE IF sig = "sell" THEN "SELL" ELSE "None"

C19_SignalHandedToOrderPath ==
    (cons_pc = "idle" /\ bars # <<>> /\ chart_df = bars) =>
        /\ placed_orders # <<>>
        /\ placed_orders[Len(placed_orders)].action = OrderActionOf(signal)

OverlayUpsert(line, P) ==
    /\ line.creations <= 1
    /\ line.created <=> line.creations = 1
    /\ line.created => line.data # <<>>
    /\ (cons_pc = "idle" /\ bars # <<>> /\ SmaPoints(bars, P) # <<>>) =>
          /\ line.created
          /\ line.data = SmaPoints(bars, P)

\* C20: create_line is called at most once for each of the two overlays, and
\* only in a cycle whose batch has a value for its SMA; after every cycle
\* whose batch has values the one overlay holds the values of that batch.
C20_OverlayUpsert ==
    /\ OverlayUpsert(sma_short_line, SMA_SHORT_PERIOD)
    /\ OverlayUpsert(sma_long_line, SMA_LONG_PERIOD)

\* C20 witness: two drains with values for the short SMA have returned, and
\* the overlay made by the first holds the values of the second.
C20_Witness ==
    /\ cons_pc = "idle"
    /\ SMA_SHORT_PERIOD = 1
    /\ bars # <<>>
    /\ Len(dequeued) > Len(bars)
    /\ \A i \in 1..Len(dequeued) : notna(dequeued[i].close)
    /\ sma_short_line.creations = 1
    /\ sma_short_line.data = SmaPoints(bars, SMA_SHORT_PERIOD)

\* C25: on the batch of a running drain as it grows, the aggregated signal
\* is the output of sma_crossover_signal, and the signal the drain holds is
\* that of the batch.
C25_PassThrough ==
    cons_pc = "draining" =>
        LET rule == sma_crossover_signal(bars)
        IN  /\ buy_or_sell_based_on_signals(bars) = rule
            /\ bars # <<>> => signal = rule

\* C25 witness: a running drain holds a buy or a sell on a batch of two bars
\* or more.
C25_Witness ==
    /\ cons_pc = "draining"
    /\ Len(bars) >= 2
    /\ signal \in {"buy", "sell"}
    /\ sma_crossover_signal(bars) = signal

\* The first n items the drains have taken, as they were on the queue.
DequeuedRaw(n) == [j \in 1..n |-> Raw(dequeued[j])]

\* C27 (the claim as stated): every bar of a batch carries the SMA values it
\* would carry if all the bars dequeued so far had been drained in one
\* batch.
C27_WindowPersistsAcrossDrains ==
    \A i \in 1..Len(bars) :
        LET k   == Len(dequeued) - Len(bars) + i
            one == AnnotateAll(<<>>, DequeuedRaw(k))
        IN  \A P \in {SMA_SHORT_PERIOD, SMA_LONG_PERIOD} :
                SameValue(bars[i].sma[P], one[k].sma[P])

\* Bar i of the batch annotated with the SMA of period P alone, on bars that
\* carry no other annotation.
Solo(P, i) ==
    update_data_with_sma(P, [j \in 1..(i - 1) |-> Raw(bars[j])], Raw(bars[i]))

\* C28: the SMA of either period on a bar of a batch is the value computed
\* from the closes with that period alone, on bars without any other
\* annotation: it depends neither on the other period nor on which of the
\* two is annotated first.  The batch changes only while a drain runs.
C28_PeriodsIndependent ==
    cons_pc = "draining" =>
        \A i \in 1..Len(bars) :
            \A P \in {SMA_SHORT_PERIOD, SMA_LONG_PERIOD} :
                bars[i].sma[P] = Solo(P, i).sma[P]

\* C28 witness: a bar carries a short and a long SMA that are different
\* numbers.
C28_Witness ==
    \E i \in 1..Len(bars) :
        /\ cons_pc = "draining"
        /\ BothAvail(bars, i)
        /\ Short(bars, i) # Long(bars, i)
        /\ i > SMA_LONG_PERIOD

---------------------------------------------------------------------------
\* Properties of the replay of a fixed data file (specification SpecReplay)

\* The rows of the data file that parse, in file order.
ValidRows(rows) == SelectSeq(rows, LAMBDA r : r # BadRow)

ClosesOf(items) == [i \in 1..Len(items) |-> items[i].close]

IsSuffix(s, t) ==
    Len(s) <= Len(t) /\ SubSeq(t, Len(t) - Len(s) + 1, Len(t)) = s

ReplayReturned == replay_pc = "returned" /\ fixture_exists

\* C12: when the replay of a data file that could be opened and read to its
\* end has returned, historicalDataEnd has been called exactly once, and it
\* was called after every bar of the request had been delivered.
C12_EndExactlyOnce ==
    (ReplayReturned /\ ~read_error) =>
        /\ Len(end_log) = 1
        /\ end_log[1].delivered = Len(enqueued)

\* C13: the bars delivered so far are, in order and once each, the first
\* parsable rows of the data file; when the replay has returned every
\* parsable row has been delivered as a bar, and each historicalDataEnd call
\* came after all of these deliveries.
C13_EveryRowOnceInOrder ==
    /\ IsPrefix(ClosesOf(enqueued), ValidRows(fixture))
    /\ \A i \in 1..Len(enqueued) : enqueued[i].date = i
    /\ ReplayReturned =>
           /\ ClosesOf(enqueued) = ValidRows(fixture)
           /\ \A k \in 1..Len(end_log) :
                  end_log[k].delivered = Len(ValidRows(fixture))

\* C14: when the replay request has failed (the data file is missing, or an
\* exception was caught while it was read), no bar of the request has been
\* put on the queue and the queue is as it was before the request.
C14_NoPartialEmission ==
    (replay_pc = "returned" /\ (~fixture_exists \/ read_error)) =>
        /\ enqueued = <<>>
        /\ data_queue = <<>>

\* C15: when the replay has returned, for every row of the data file that
\* does not parse, the parsable rows after it have all been delivered: they
\* are the last bars put on the queue.
C15_MalformedRowSkipped ==
    ReplayReturned =>
        \A j \in 1..Len(fixture) :
            fixture[j] = BadRow =>
                IsSuffix(ValidRows(SubSeq(fixture, j + 1, Len(fixture))),
                         ClosesOf(enqueued))

---------------------------------------------------------------------------
\* Properties of two open requests (specification SpecTwo)

\* The request of the i-th bar of the running batch: the batch is the last
\* Len(bars) items taken from the queue.
OriginOf(i) == subs.origin[Len(dequeued) - Len(bars) + i]

\* Bar i of the batch as the drain loop annotates it when the batch holds
\* the bars of its own request only.
AloneInBatch(i) ==
    LET idx == {j \in 1..i : OriginOf(j) = OriginOf(i)}
        own == SelectSeq([j \in 1..i |-> [b |-> bars[j], j |-> j]],
                         LAMBDA e : e.j \in idx)
        out == AnnotateAll(<<>>, [k \in 1..Len(own) |-> own[k].b])
    IN  out[Len(out)]

\* C11: every bar of a batch carries the SMA values it would carry if the
\* bars of the other request had not been in the batch.
C11_Isolation ==
    \A i \in 1..Len(bars) :
        \A P \in {SMA_SHORT_PERIOD, SMA_LONG_PERIOD} :
            SameValue(bars[i].sma[P], AloneInBatch(i).sma[P])

---------------------------------------------------------------------------
\* get_next_req_id called from several threads.  `self.current_req_id += 1`
\* is a load and a store with no lock around them, and the return statement
\* reads the attribute again.

CallsStarted ==
    Len(callers.returned) + Cardinality({c \in Callers : callers.pc[c] # "idle"})

pipeline_vars == <<replay_pc, pos, req_result, data_queue, cons_pc, bars,
                   signal, chart_df, sma_short_line, sma_long_line, spinner,
                   enqueued, dequeued, final_drain, read_error, end_log,
                   cycle_log>>

\* The right-hand side of the increment is evaluated.
get_next_req_id_load(c) ==
    /\ callers.pc[c] = "idle"
    /\ CallsStarted < MaxLen
    /\ callers' = [callers EXCEPT
                      !.pc[c] = "loaded",
                      !.tmp[c] = current_req_id,
                      !.overlapped =
                          @ \/ \E d \in Callers \ {c} : callers.pc[d] # "idle"]
    /\ UNCHANGED <<SMA_SHORT_PERIOD, SMA_LONG_PERIOD, fixture_exists, pair,
                   fixture, subs, placed_orders, orders, market, failures,
                   current_req_id, pipeline_vars>>

\* Mutant: the attribute is stored back without the increment.
get_next_req_id_store_same(c) ==
    /\ callers.pc[c] = "loaded"
    /\ current_req_id' = callers.tmp[c]
    /\ callers' = [callers EXCEPT !.pc[c] = "stored"]
    /\ UNCHANGED <<SMA_SHORT_PERIOD, SMA_LONG_PERIOD, fixture_exists, pair,
                   fixture, subs, placed_orders, orders, market, failures,
                   pipeline_vars>>

\* The incremented value is stored in the attribute.
get_next_req_id_store(c) ==
    /\ callers.pc[c] = "loaded"
    /\ current_req_id' = callers.tmp[c] + 1
    /\ callers' = [callers EXCEPT !.pc[c] = "stored"]
    /\ UNCHANGED <<SMA_SHORT_PERIOD, SMA_LONG_PERIOD, fixture_exists, pair,
                   fixture, subs, placed_orders, orders, market, failures,
                   pipeline_vars>>

\* `return self.current_req_id` reads the attribute as it is now.
get_next_req_id_return(c) ==
    /\ callers.pc[c] = "stored"
    /\ callers' = [callers EXCEPT
                      !.pc[c] = "idle",
                      !.returned = Append(@, current_req_id)]
    /\ UNCHANGED <<SMA_SHORT_PERIOD, SMA_LONG_PERIOD, fixture_exists, pair,
                   fixture, subs, placed_orders, orders, market, failures,
                   current_req_id, pipeline_vars>>

NextReqId ==
    \/ \E c \in Callers : get_next_req_id_load(c)
    \/ \E c \in Callers : get_next_req_id_store(c)
    \/ \E c \in Callers : get_next_req_id_return(c)

SpecReqId == Init /\ [][NextReqId]_vars

PairwiseDistinct(s) ==
    \A i, j \in 1..Len(s) : i # j => s[i] # s[j]

\* C29 (the claim as stated): all ids returned by get_next_req_id calls on
\* one client are pairwise distinct, calls that interleave included.
C29_ReqIdsUnique == PairwiseDistinct(callers.returned)

\* C29 (amended): when no call started while another was running, the k-th
\* id returned is k, so the ids are pairwise distinct and increasing.
C29_SequentialReqIdsUnique ==
    ~callers.overlapped =>
        \A k \in 1..Len(callers.returned) : callers.returned[k] = k

C29_Witness ==
    /\ ~callers.overlapped
    /\ Len(callers.returned) >= 3
    /\ PairwiseDistinct(callers.returned)

---------------------------------------------------------------------------
\* Orders at the real client.  The chart's hotkeys call
\* ChartHandler.place_order on the thread of the chart's events; nextValidId
\* runs on the API thread whenever the broker's answer to a reqIds arrives.

OrderActions == {"BUY", "SELL"}

order_unchanged ==
    UNCHANGED <<SMA_SHORT_PERIOD, SMA_LONG_PERIOD, fixture_exists, pair,
                fixture, subs, callers, market, failures, current_req_id,
                pipeline_vars>>

\* IBClient.nextValidId: the answer carries the broker's next valid id,
\* which is above every id an order was placed with.
nextValidId ==
    /\ orders.pending > 0
    /\ orders' = [orders EXCEPT !.order_id = orders.next_valid,
                                !.pending = @ - 1]
    /\ UNCHANGED placed_orders
    /\ order_unchanged

\* EClient.placeOrder(order_id, contract, order) as the broker sees it.
\* `by` records which place_order made the call.
placeOrder(order_id, action, pc) ==
    /\ placed_orders' =
          Append(placed_orders, [orderId |-> order_id, action |-> action,
                                 by |-> orders.pc])
    /\ orders' = [orders EXCEPT
                     !.pc = pc,
                     !.next_valid = IF order_id >= @ THEN order_id + 1 ELSE @]

\* ChartHandler.place_order up to the sleep: the action is chosen from the
\* key and reqIds(-1) is sent.
chart_place_order_reqIds(action) ==
    /\ orders.pc = "idle"
    /\ orders.calls < MaxLen
    /\ orders' = [orders EXCEPT !.pc = "chart_wait", !.action = action,
                                !.pending = @ + 1, !.calls = @ + 1]
    /\ UNCHANGED placed_orders
    /\ order_unchanged

\* ChartHandler.place_order after time.sleep(2): the order is placed with
\* whatever client.order_id holds now, or the error is logged when it is
\* still None.
chart_place_order_place ==
    /\ orders.pc = "chart_wait"
    /\ IF orders.order_id # 0
         THEN placeOrder(orders.order_id, orders.action, "idle")
         ELSE /\ orders' = [orders EXCEPT !.pc = "idle"]
              /\ UNCHANGED placed_orders
    /\ order_unchanged

\* IBClient.place_order up to the Order it builds: reqIds(-1) and the sleep
\* happen only when no order id was ever received.
ib_place_order_begin(action) ==
    /\ orders.pc = "idle"
    /\ orders.calls < MaxLen
    /\ orders' = [orders EXCEPT
                     !.pc = "ib_wait", !.action = action, !.calls = @ + 1,
                     !.pending = IF orders.order_id = 0 THEN @ + 1 ELSE @]
    /\ UNCHANGED placed_orders
    /\ order_unchanged

\* IBClient.place_order from `if self.order_id:` on: the order is placed
\* when an id is held; the position is updated in the else branch.
ib_place_order_place ==
    /\ orders.pc = "ib_wait"
    /\ IF orders.order_id # 0
         THEN placeOrder(orders.order_id, orders.action, "idle")
         ELSE /\ orders' = [orders EXCEPT
                              !.pc = "idle",
                              !.updates =
                                  Append(@, IF orders.action = "BUY"
                                            THEN 1 ELSE -1)]
              /\ UNCHANGED placed_orders
    /\ order_unchanged

NextOrders ==
    \/ nextValidId
    \/ \E action \in OrderActions : chart_place_order_reqIds(action)
    \/ chart_place_order_place
    \/ \E action \in OrderActions : ib_place_order_begin(action)
    \/ ib_place_order_place

SpecOrders == Init /\ [][NextOrders]_vars

\* C30 (the claim as stated): no two placeOrder calls use the same order
\* id, whenever the nextValidId answers arrive.
C30_OrderIdsNeverReused ==
    \A i, j \in 1..Len(placed_orders) :
        i # j => placed_orders[i].orderId # placed_orders[j].orderId

---------------------------------------------------------------------------
\* Market data at the mock client.  reqMktData starts a thread that replays
\* a file of ticks; stop_market_data and reqMktData are called on the thread
\* that also makes the historical requests, so they never run while a
\* replay of historical data is inside reqHistoricalData.

TicksEmitted == Len(SelectSeq(enqueued, LAMBDA e : e.date = 0))

CallerFree == market.caller = "idle" /\ replay_pc \in {"idle", "returned"}

market_unchanged ==
    UNCHANGED <<SMA_SHORT_PERIOD, SMA_LONG_PERIOD, fixture_exists, pair,
                fixture, subs, placed_orders, callers, orders, failures,
                current_req_id, replay_pc, pos, req_result, cons_pc, bars,
                signal, chart_df, sma_short_line, sma_long_line,
                dequeued, final_drain, read_error, end_log, cycle_log>>

\* stop_market_data up to the join: with a live thread the flag is set;
\* with none the method returns at once.
stop_market_data_begin ==
    /\ CallerFree
    /\ market' = IF market.thread = "running"
                 THEN [market EXCEPT !.stop_event = TRUE,
                                     !.caller = "joining",
                                     !.targeted = TRUE]
                 ELSE market
    /\ UNCHANGED <<data_queue, enqueued, spinner>>
    /\ market_unchanged

\* Mutant: the flag is not cleared after the join.
stop_market_data_join_no_clear ==
    /\ market.caller \in {"joining", "req_joining"}
    /\ market.thread = "exited"
    /\ market' = [market EXCEPT
                     !.caller = IF @ = "joining" THEN "idle" ELSE "req_start",
                     !.stopped = TRUE,
                     !.ticks_at_stop = TicksEmitted]
    /\ UNCHANGED <<data_queue, enqueued, spinner>>
    /\ market_unchanged

\* Mutant: join returns without waiting for the thread to exit.
stop_market_data_join_no_wait ==
    /\ market.caller \in {"joining", "req_joining"}
    /\ market' = [market EXCEPT
                     !.stop_event = FALSE,
                     !.caller = IF @ = "joining" THEN "idle" ELSE "req_start",
                     !.stopped = TRUE,
                     !.ticks_at_stop = TicksEmitted]
    /\ UNCHANGED <<data_queue, enqueued, spinner>>
    /\ market_unchanged

\* market_data_thread.join() returns once the thread has exited; the flag
\* is cleared and stop_market_data returns.
stop_market_data_join ==
    /\ market.caller \in {"joining", "req_joining"}
    /\ market.thread = "exited"
    /\ market' = [market EXCEPT
                     !.stop_event = FALSE,
                     !.caller = IF @ = "joining" THEN "idle" ELSE "req_start",
                     !.stopped = TRUE,
                     !.ticks_at_stop = TicksEmitted]
    /\ UNCHANGED <<data_queue, enqueued, spinner>>
    /\ market_unchanged

\* reqMktData up to the thread it starts: the early return when the tick
\* file is missing, otherwise the call of stop_market_data.
reqMktData_begin(exists) ==
    /\ CallerFree
    /\ market' =
          IF ~exists
          THEN [market EXCEPT !.last_req = "missing",
                              !.ticks_at_req = TicksEmitted]
          ELSE IF market.thread = "running"
               THEN [market EXCEPT !.stop_event = TRUE,
                                   !.caller = "req_joining",
                                   !.targeted = TRUE]
               ELSE [market EXCEPT !.caller = "req_start"]
    /\ UNCHANGED <<data_queue, enqueued, spinner>>
    /\ market_unchanged

\* reqMktData creates the thread and starts it.
reqMktData_start ==
    /\ market.caller = "req_start"
    /\ market' = [market EXCEPT !.caller = "idle", !.thread = "running",
                                !.tpc = "loop", !.ticks = 0,
                                !.stopped = FALSE,
                                !.last_req = "started",
                                !.ticks_at_req = TicksEmitted,
                                !.targeted = FALSE, !.broke = FALSE,
                                !.after_stop = market.stopped]
    /\ UNCHANGED <<data_queue, enqueued, spinner>>
    /\ market_unchanged

\* The reader yields a row and the thread tests the stop flag: set, it
\* leaves the loop; clear, it goes on to tickPrice.
market_row ==
    /\ market.thread = "running"
    /\ market.tpc = "loop"
    /\ market' = [market EXCEPT
                     !.tpc = IF market.stop_event THEN "after" ELSE "tick",
                     !.broke = market.stop_event]
    /\ UNCHANGED <<data_queue, enqueued, spinner>>
    /\ market_unchanged

\* The reader is exhausted.
market_eof ==
    /\ market.thread = "running"
    /\ market.tpc = "loop"
    /\ market' = [market EXCEPT !.tpc = "after"]
    /\ UNCHANGED <<data_queue, enqueued, spinner>>
    /\ market_unchanged

\* tickPrice with the price of the row: the tick is put on the queue and
\* shown on the chart; the row is appended to ticks and the thread sleeps.
market_tickPrice(price) ==
    /\ market.thread = "running"
    /\ market.tpc = "tick"
    /\ data_queue' = queue_put(data_queue, Tick(price))
    /\ enqueued' = Append(enqueued, [date |-> 0, close |-> NaNV])
    /\ market' = [market EXCEPT !.tpc = "loop", !.ticks = @ + 1]
    /\ UNCHANGED spinner
    /\ market_unchanged

\* After the loop: cancelMktData, which turns the spinner off, when ticks
\* were emitted and the flag is clear; then the thread exits.
market_exit ==
    /\ market.thread = "running"
    /\ market.tpc = "after"
    /\ spinner' = IF market.ticks > 0 /\ ~market.stop_event
                  THEN FALSE ELSE spinner
    /\ market' = [market EXCEPT !.thread = "exited"]
    /\ UNCHANGED <<data_queue, enqueued>>
    /\ market_unchanged

\* update_data_with_sma raises on the item just dequeued.  update_chart
\* catches queue.Empty only: its finally clause turns the spinner off and
\* the exception leaves it, with the batch collected so far.  When
\* historicalDataEnd made the call the replay's handler catches and logs it.
update_chart_raise ==
    /\ cons_pc = "draining"
    /\ ~queue_empty(data_queue)
    /\ LET got == queue_get_nowait(data_queue)
       IN  /\ annotation_raises(bars, got[1])
           /\ data_queue' = got[2]
           /\ dequeued' = Append(dequeued, [date |-> got[1].date,
                                            close |-> got[1].close])
           /\ cycle_log' = Append(cycle_log,
                                  [ev |-> "raise", date |-> got[1].date])
    /\ cons_pc' = "idle"
    /\ spinner' = FALSE
    /\ final_drain' = (final_drain \/ ReplayStopped)
    /\ IF replay_pc = "in_end"
       THEN /\ replay_pc' = "returned"
            /\ req_result' = "None"
            /\ read_error' = TRUE
       ELSE UNCHANGED <<replay_pc, req_result, read_error>>
    /\ UNCHANGED <<config_vars, pos, current_req_id, bars, signal, chart_df,
                   sma_short_line, sma_long_line, enqueued, end_log>>

\* What the market data thread can do next.
market_thread ==
    \/ Len(enqueued) < MaxLen /\ TicksEmitted < MaxTicks /\ market_row
    \/ market_eof
    \/ \E close \in {c \in TwoCloses : notna(c)} : market_tickPrice(close.v)
    \/ market_exit

NextMarket ==
    \/ stop_market_data_begin
    \/ stop_market_data_join
    \/ \E exists \in BOOLEAN : reqMktData_begin(exists)
    \/ reqMktData_start
    \/ market_thread
    \/ market.caller = "idle" /\ request_historical_data
    \/ \E close \in TwoCloses :
          /\ pos < MaxLen /\ Len(enqueued) < MaxLen
          /\ simulate_historical_row(close)
    \/ simulate_historical_end
    \/ update_chart_step
    \/ update_chart_raise
    \/ update_chart_end

SpecMarket == Init /\ [][NextMarket]_vars

\* The thread is scheduled while it can run, and the caller of join resumes
\* once the thread has exited.
SpecMarketLive ==
    /\ InitLive
    /\ [][NextMarket]_vars
    /\ WF_vars(market_thread)
    /\ WF_vars(stop_market_data_join)

InStop == market.caller \in {"joining", "req_joining"}

\* C21: a stop_market_data call that waits for the thread always returns,
\* and from its return until a new thread is started the thread it stopped
\* has exited and no further tick is put on the queue.
C21_StopTerminatesAndSilences ==
    /\ [](market.stopped =>
             /\ market.thread = "exited"
             /\ TicksEmitted = market.ticks_at_stop)
    /\ InStop ~> ~InStop

C21_Witness ==
    /\ market.stopped
    /\ market.caller = "idle"
    /\ market.ticks_at_stop >= 1
    /\ Len(enqueued) > market.ticks_at_stop
    /\ Len(enqueued) < MaxLen

\* C22 (the claim as stated): when an update_chart call has returned, every
\* bar it took from the queue is in the series it handed to chart.set.
C22_DrainedBatchCompleted ==
    cons_pc = "idle" =>
        \A k \in 1..Len(cycle_log) :
            cycle_log[k].date # 0 =>
                \E i \in 1..Len(chart_df) :
                    chart_df[i].date = cycle_log[k].date

---------------------------------------------------------------------------
\* A call on the chart raises during update_chart: chart.set, or the call
\* show_sma_line makes for the short or for the long overlay.  What the
\* chart did before raising is not known: `applied` says whether the call
\* took effect.

ChartCalls == {"set", "short", "long"}

\* show_sma_line whose call on the chart raises.  On an existing Line it is
\* line_attr.set.  Without one it is create_line (nothing is made) or
\* new_line.set (the Line is made); either way setattr is not reached and
\* the attribute stays None.
show_sma_line_fails(period, line_attr, df, applied) ==
    LET sma_df == SmaPoints(df, period)
    IN  IF line_attr.created
        THEN [line_attr EXCEPT !.data = IF applied THEN sma_df ELSE @]
        ELSE [line_attr EXCEPT !.creations = IF applied THEN @ + 1 ELSE @]

\* The call is made at all: show_sma_line has points to show.
OverlayCalled(period) ==
    HasColumn(bars, period) /\ SmaPoints(bars, period) # <<>>

\* Mutant: the new Line is stored in the attribute before its set is called.
update_chart_end_fails_handle_first(at, applied) ==
    /\ cons_pc = "draining"
    /\ queue_empty(data_queue)
    /\ bars # <<>>
    /\ Len(failures) < MaxFailures
    /\ at = "short" /\ OverlayCalled(SMA_SHORT_PERIOD)
    /\ chart_df' = bars
    /\ sma_short_line' = [sma_short_line EXCEPT !.created = TRUE,
                                                !.creations = @ + 1]
    /\ UNCHANGED sma_long_line
    /\ failures' = Append(failures, at)
    /\ cycle_log' = Append(cycle_log, [ev |-> "fail", date |-> 0])
    /\ cons_pc' = "idle"
    /\ spinner' = FALSE
    /\ final_drain' = (final_drain \/ ReplayStopped)
    /\ IF replay_pc = "in_end"
       THEN /\ replay_pc' = "returned"
            /\ req_result' = "None"
            /\ read_error' = TRUE
       ELSE UNCHANGED <<replay_pc, req_result, read_error>>
    /\ UNCHANGED <<SMA_SHORT_PERIOD, SMA_LONG_PERIOD, fixture_exists, pair,
                   fixture, subs, placed_orders, callers, orders, market,
                   pos, current_req_id, data_queue, bars, signal, enqueued,
                   dequeued, end_log>>

\* update_chart after the loop, with a non-empty batch, when the chart call
\* `at` raises.  The calls before it have taken effect and the calls after
\* it are not made.  update_chart catches queue.Empty only: the finally
\* clause turns the spinner off and the exception goes to the caller; when
\* that is historicalDataEnd inside the replay, the replay's handler
\* catches and logs it.
update_chart_end_fails(at, applied) ==
    /\ cons_pc = "draining"
    /\ queue_empty(data_queue)
    /\ bars # <<>>
    /\ Len(failures) < MaxFailures
    /\ \/ /\ at = "set"
          /\ chart_df' = IF applied THEN bars ELSE chart_df
          /\ UNCHANGED <<sma_short_line, sma_long_line>>
       \/ /\ at = "short" /\ OverlayCalled(SMA_SHORT_PERIOD)
          /\ chart_df' = bars
          /\ sma_short_line' =
                show_sma_line_fails(SMA_SHORT_PERIOD, sma_short_line, bars,
                                    applied)
          /\ UNCHANGED sma_long_line
       \/ /\ at = "long" /\ OverlayCalled(SMA_LONG_PERIOD)
          /\ chart_df' = bars
          /\ sma_short_line' =
                show_sma_line(SMA_SHORT_PERIOD, sma_short_line, bars)
          /\ sma_long_line' =
                show_sma_line_fails(SMA_LONG_PERIOD, sma_long_line, bars,
                                    applied)
    /\ failures' = Append(failures, at)
    /\ cycle_log' = Append(cycle_log, [ev |-> "fail", date |-> 0])
    /\ cons_pc' = "idle"
    /\ spinner' = FALSE
    /\ final_drain' = (final_drain \/ ReplayStopped)
    /\ IF replay_pc = "in_end"
       THEN /\ replay_pc' = "returned"
            /\ req_result' = "None"
            /\ read_error' = TRUE
       ELSE UNCHANGED <<replay_pc, req_result, read_error>>
    /\ UNCHANGED <<SMA_SHORT_PERIOD, SMA_LONG_PERIOD, fixture_exists, pair,
                   fixture, subs, placed_orders, callers, orders, market,
                   pos, current_req_id, data_queue, bars, signal, enqueued,
                   dequeued, end_log>>

NextFail ==
    \/ request_historical_data
    \/ \E close \in TwoCloses : pos < MaxLen /\ simulate_historical_row(close)
    \/ simulate_historical_end
    \/ update_chart_begin
    \/ update_chart_step
    \/ update_chart_end
    \/ \E at \in ChartCalls, applied \in BOOLEAN :
          update_chart_end_fails(at, applied)

\* The failing calls depend neither on the periods nor on the prices: the
\* smallest pair of periods and two closes are taken.
SpecFail == InitLive /\ [][NextFail]_vars

LastCycleFailed ==
    cycle_log # <<>> /\ cycle_log[Len(cycle_log)].ev = "fail"

OverlayShows(line, P) ==
    SmaPoints(bars, P) # <<>> =>
        line.created /\ line.data = SmaPoints(bars, P)

SubmittedByClient == SelectSeq(placed_orders, LAMBDA o : o.by = "ib_wait")

\* C31 (the claim as stated): the position updates IBClient.place_order
\* made are those of the orders it submitted, one each, +1 for a BUY and -1
\* for a SELL; a call that submitted nothing made no update.
C31_PortfolioIffSubmitted ==
    orders.pc = "idle" =>
        /\ Len(orders.updates) = Len(SubmittedByClient)
        /\ \A k \in 1..Len(orders.updates) :
              orders.updates[k] =
                  IF SubmittedByClient[k].action = "BUY" THEN 1 ELSE -1

\* C32 (the claim as stated): once a reqMktData call has returned without
\* starting a thread, its tick file missing, no thread of an earlier request
\* puts a further tick on the queue.
C32_NoEarlierProducerAfterRequest ==
    market.last_req = "missing" => TicksEmitted = market.ticks_at_req

\* C33: the stop flag is set only while stop_market_data is executing, a
\* thread leaves its loop on the flag only if a stop was requested while it
\* ran, and the thread reqMktData starts after a stop starts with the flag
\* clear.
C33_StopFlagNeverLeaks ==
    /\ market.stop_event => InStop
    /\ market.broke => market.targeted
    /\ (market.thread = "running" /\ ~market.targeted) => ~market.stop_event

\* C33 witness: a thread started after a stop has emitted every tick of its
\* file and left the loop at the end of the file.
C33_Witness ==
    /\ market.after_stop
    /\ market.thread = "exited"
    /\ ~market.broke
    /\ market.ticks >= 1
    /\ TicksEmitted > market.ticks

\* C34 (the claim as stated): after every drain cycle with a non-empty batch,
\* each overlay shown on the chart holds exactly the SMA points of the bars
\* set in that cycle, none when the batch has no value for its period.
C34_OverlayOfSameCycle ==
    (cons_pc = "idle" /\ bars # <<>> /\ chart_df = bars) =>
        /\ sma_short_line.created =>
              sma_short_line.data = SmaPoints(bars, SMA_SHORT_PERIOD)
        /\ sma_long_line.created =>
              sma_long_line.data = SmaPoints(bars, SMA_LONG_PERIOD)

\* C35 (the claim as stated): when a historical-data request, which turned
\* the spinner on, has returned and no drain cycle is running, the spinner
\* has been turned off, whatever the outcome of the request.
C35_SpinnerTurnedOff ==
    (replay_pc = "returned" /\ cons_pc = "idle") => spinner = FALSE

\* C23 (the claim as stated): the batch of the drain that the
\* historicalDataEnd of a request with at least one bar started holds bars
\* of that request only, and when the drain has returned it holds all of
\* them.
C23_BatchIsTheRequest ==
    end_log # <<>> =>
        LET r == end_log[Len(end_log)].reqId
        IN  Delivered(r) >= 1 =>
                /\ \A i \in 1..Len(bars) : OriginOf(i) = r
                /\ cons_pc = "idle" => Len(bars) = Delivered(r)

\* C26 (the claim as stated): the items put on the queue are the historical
\* bars and the real-time bars received, one item each.
C26_RealtimeBarEnqueued ==
    Len(enqueued) = Len(subs.origin) + subs.realtime

====
